---- MODULE Spec2Model ----
(***************************************************************************)
(* State-machine model of server.js of my-gallery-website.                *)
(*                                                                         *)
(* The source file holds the two deployed variants of the server one       *)
(* after the other: lines 1-302 keep uploaded binaries on the local disk   *)
(* (uploads/), lines 303-620 keep them on Cloudinary.  `backend` selects   *)
(* the variant; it is chosen once, at start-up, and never changes.         *)
(*                                                                         *)
(* Every route handler is one action.  A handler that awaits (bcrypt.hash, *)
(* bcrypt.compare, image.mv, upload_stream, uploader.destroy) is split at  *)
(* the await: the first action runs the code up to the await and leaves a  *)
(* record in the matching pending bag, the "...Done" action runs the code  *)
(* after the await.  Node runs each of these pieces to completion, so each *)
(* piece is atomic and pieces of different requests interleave freely.     *)
(***************************************************************************)
EXTENDS Integers, Sequences, FiniteSets, Bags, TLC

VARIABLES
    backend,          \* "local" (lines 1-302) or "cloudinary" (lines 303-620)
    users,            \* let users = []
    categories,       \* let categories = []
    images,           \* let images = []
    storage,          \* binaries held by uploads/ or by Cloudinary
    sessions,         \* the session store: client cookie -> session data
    adminInit,        \* position of initializeAdmin(): "hashing" or "done"
    pendingSignups,   \* signup handlers suspended at await bcrypt.hash
    pendingLogins,    \* login handlers suspended at await bcrypt.compare
    pendingUploads,   \* upload handlers suspended at image.mv / await uploadPromise
    pendingDeletes,   \* delete handlers suspended at await uploader.destroy
    resp              \* the response sent by the last step (NoResp: none)

vars == <<backend, users, categories, images, storage, sessions, adminInit,
          pendingSignups, pendingLogins, pendingUploads, pendingDeletes,
          resp>>

-----------------------------------------------------------------------------
(* Bounds of the model *)

MaxUsers == 3        \* user records ever created (bootstrap included)
MaxImages == 2       \* image records, and stored binaries, at one time
MaxCategories == 2   \* categories ever created
MaxInFlight == 2     \* handlers suspended at an await at one time

(* Inputs of the requests *)

Clients == {"c1", "c2"}

\* A string of the request body is a sequence of characters.
AdminUsername == <<"a">>
Usernames == {<< >>, AdminUsername, <<"b">>}

\* bcrypt reads the first 72 bytes of a password and no more.  A password is
\* modelled as the sequence of its 72-byte blocks, the last one possibly
\* shorter: <<"admin123">> is a short password, <<"B", "x">> and
\* <<"B", "y">> are two long passwords that share their first block.
AdminPassword == <<"admin123">>
Passwords == {<< >>, AdminPassword, <<"B", "x">>, <<"B", "y">>}

Salts == {"s1", "s2"}

CategoryNames == {<< >>, <<"n">>}
CategoryIdInputs == {<<"1">>, <<"2">>, <<"x">>}
CategoryQueries == {<< >>} \cup CategoryIdInputs
FileNames == {<<"p", " ", "q">>, <<"p", "-", "q">>}
MimeTypes == {"image/jpeg", "image/webp", "text/html"}

-----------------------------------------------------------------------------
(* Library functions, modelled by what they compute *)

\* JavaScript truthiness of a string: !s is true exactly for "".
Falsy(s) == Len(s) = 0

\* bcryptjs: the key of the Blowfish schedule is cycled over 72 bytes only,
\* so the bytes of the password after the first block never reach the digest.
BcryptKey(password) == IF Len(password) = 0 THEN "" ELSE Head(password)

\* bcrypt.hash(password, 10): a fresh random salt, and the digest of salt and key.
BcryptHash(password, salt) ==
    [salt |-> salt, digest |-> <<salt, BcryptKey(password)>>]

\* bcrypt.compare(password, hash): hash the password with the stored salt and
\* compare the digests.
BcryptCompare(password, hash) ==
    BcryptHash(password, hash.salt).digest = hash.digest

\* name.replace(/\s/g, '-')
ReplaceSpaces(name) ==
    [i \in DOMAIN name |-> IF name[i] = " " THEN "-" ELSE name[i]]

\* parseInt of a string of decimal digits; NaN when it does not start with one.
NaN == -1
DigitValue(c) ==
    CASE c = "0" -> 0 [] c = "1" -> 1 [] c = "2" -> 2 [] c = "3" -> 3
      [] c = "4" -> 4 [] c = "5" -> 5 [] c = "6" -> 6 [] c = "7" -> 7
      [] c = "8" -> 8 [] c = "9" -> 9 [] OTHER -> NaN

RECURSIVE ParseDigits(_, _)
ParseDigits(s, acc) ==
    IF Len(s) = 0 \/ DigitValue(Head(s)) = NaN THEN acc
    ELSE ParseDigits(Tail(s), 10 * acc + DigitValue(Head(s)))

ParseInt(s) ==
    IF Len(s) = 0 \/ DigitValue(Head(s)) = NaN THEN NaN ELSE ParseDigits(s, 0)

\* Mutant of StrictEquals: Object.is(a, b), under which NaN is NaN.
SameValue(a, b) == a = b

\* a === b for two numbers: NaN is equal to nothing, itself included.
StrictEquals(a, b) == a # NaN /\ b # NaN /\ a = b

\* Array.prototype.findIndex with the callback  x => x[key] === value,
\* 1-based; 0 stands for JavaScript's -1.
FindIndex(seq, key, value) ==
    IF \E i \in 1..Len(seq) : seq[i][key] = value
    THEN CHOOSE i \in 1..Len(seq) :
             /\ seq[i][key] = value
             /\ \A j \in 1..(i - 1) : seq[j][key] # value
    ELSE 0

\* Array.prototype.splice(index, 1), index 1-based: removes the element at
\* index when there is one, and nothing when index is past the end.
Splice1(seq, index) ==
    IF index \in 1..Len(seq)
    THEN SubSeq(seq, 1, index - 1) \o SubSeq(seq, index + 1, Len(seq))
    ELSE seq

-----------------------------------------------------------------------------
(* Sessions and responses *)

\* express-session with saveUninitialized: false: a client without a stored
\* session gets a new empty one on every request; userId 0 stands for undefined.
Anonymous == [userId |-> 0, username |-> << >>, isAdmin |-> FALSE]

NoClient == "-"

\* A response: the route, the HTTP status, the client, req.session as the
\* route's guard or handler read it (Anonymous when it reads none), the id the
\* response is about (0 when none), the error, isAdmin and authenticated
\* fields of the JSON body ("" and FALSE when the body has none), and the
\* array a list route answers (empty for every other route).
NoResp ==
    [op |-> "none", status |-> 0, client |-> NoClient, session |-> Anonymous,
     arg |-> 0, error |-> "", isAdmin |-> FALSE, authenticated |-> FALSE,
     body |-> << >>]

\* res.json({...})
Response(op, status, client, session, arg, isAdmin, authenticated) ==
    [op |-> op, status |-> status, client |-> client, session |-> session,
     arg |-> arg, error |-> "", isAdmin |-> isAdmin, authenticated |-> authenticated,
     body |-> << >>]

\* res.status(status).json({ error: error })
Failure(op, status, client, session, arg, error) ==
    [op |-> op, status |-> status, client |-> client, session |-> session,
     arg |-> arg, error |-> error, isAdmin |-> FALSE, authenticated |-> FALSE,
     body |-> << >>]

InFlight ==
    BagCardinality(pendingSignups) + BagCardinality(pendingLogins)
    + BagCardinality(pendingUploads) + BagCardinality(pendingDeletes)

One(r) == SetToBag({r})

-----------------------------------------------------------------------------
(* Start-up *)

Init ==
    /\ backend \in {"local", "cloudinary"}
    /\ users = << >>
    /\ categories = << >>
    /\ images = << >>
    /\ storage = {}
    /\ sessions = [c \in Clients |-> Anonymous]
    /\ adminInit = "hashing"
    /\ pendingSignups = EmptyBag
    /\ pendingLogins = EmptyBag
    /\ pendingUploads = EmptyBag
    /\ pendingDeletes = EmptyBag
    /\ resp = NoResp

\* initializeAdmin() after its await bcrypt.hash: the default admin is pushed
\* with the literal id 1, whatever users holds by then.  It answers no request.
InitializeAdminDone(salt) ==
    /\ adminInit = "hashing"
    /\ adminInit' = "done"
    /\ users' = Append(users, [id |-> 1, username |-> AdminUsername,
                               password |-> BcryptHash(AdminPassword, salt),
                               isAdmin |-> TRUE])
    /\ resp' = NoResp
    /\ UNCHANGED <<backend, categories, images, storage, sessions, pendingSignups,
                   pendingLogins, pendingUploads, pendingDeletes>>

-----------------------------------------------------------------------------
(* Credential store and sessions *)

\* Mutant of UsernameTaken: only the newest user record is compared.
UsernameTakenByNewest(username) ==
    Len(users) > 0 /\ users[Len(users)].username = username

\* users.find(u => u.username === username), as a condition
UsernameTaken(username) ==
    \E i \in 1..Len(users) : users[i].username = username

\* users.find(u => u.username === username), as a value (when there is one)
FindUser(username) ==
    users[FindIndex(users, "username", username)]

\* id: users.length + 1
NewUserId == Len(users) + 1

\* Mutant of FirstUserIsAdmin: users.length <= 1.
FirstUserIsAdminOffByOne == Len(users) <= 1

\* isAdmin: users.length === 0 // First user is admin
FirstUserIsAdmin == Len(users) = 0

\* User records that exist or are about to: the bound on the run's signups.
UsersInProgress ==
    Len(users) + BagCardinality(pendingSignups)
    + (IF adminInit = "hashing" THEN 1 ELSE 0)

\* POST /api/signup up to await bcrypt.hash
Signup(username, password) ==
    /\ \/ /\ Falsy(username) \/ Falsy(password)
          /\ resp' = Failure("signup", 400, NoClient, Anonymous, 0,
                             "Username and password required")
          /\ UNCHANGED pendingSignups
       \/ /\ ~(Falsy(username) \/ Falsy(password))
          /\ UsernameTaken(username)
          /\ resp' = Failure("signup", 400, NoClient, Anonymous, 0,
                             "Username already exists")
          /\ UNCHANGED pendingSignups
       \/ /\ ~(Falsy(username) \/ Falsy(password))
          /\ ~UsernameTaken(username)
          /\ UsersInProgress < MaxUsers
          /\ InFlight < MaxInFlight
          /\ pendingSignups' =
                pendingSignups (+) One([username |-> username, password |-> password])
          /\ resp' = NoResp
    /\ UNCHANGED <<backend, users, categories, images, storage, sessions, adminInit,
                   pendingLogins, pendingUploads, pendingDeletes>>

\* POST /api/signup after await bcrypt.hash
SignupDone(r, salt) ==
    /\ BagIn(r, pendingSignups)
    /\ pendingSignups' = pendingSignups (-) One(r)
    /\ users' = Append(users, [id |-> NewUserId, username |-> r.username,
                               password |-> BcryptHash(r.password, salt),
                               isAdmin |-> FirstUserIsAdmin])
    /\ resp' = Response("signup", 200, NoClient, Anonymous, 0, FirstUserIsAdmin, FALSE)
    /\ UNCHANGED <<backend, categories, images, storage, sessions, adminInit,
                   pendingLogins, pendingUploads, pendingDeletes>>

\* Mutant of Login: a login with an unknown username ends the session.
LoginEndsSessionOfUnknownUser(client, username, password) ==
    /\ \/ /\ ~UsernameTaken(username)
          /\ resp' = Failure("login", 401, client, Anonymous, 0,
                             "Invalid credentials")
          /\ sessions' = [sessions EXCEPT ![client] = Anonymous]
          /\ UNCHANGED pendingLogins
       \/ /\ UsernameTaken(username)
          /\ InFlight < MaxInFlight
          /\ pendingLogins' =
                pendingLogins (+) One([client |-> client, user |-> FindUser(username),
                                       password |-> password])
          /\ resp' = NoResp
          /\ UNCHANGED sessions
    /\ UNCHANGED <<backend, users, categories, images, storage, adminInit,
                   pendingSignups, pendingUploads, pendingDeletes>>

\* POST /api/login up to await bcrypt.compare
Login(client, username, password) ==
    /\ \/ /\ ~UsernameTaken(username)
          /\ resp' = Failure("login", 401, client, Anonymous, 0,
                             "Invalid credentials")
          /\ UNCHANGED pendingLogins
       \/ /\ UsernameTaken(username)
          /\ InFlight < MaxInFlight
          /\ pendingLogins' =
                pendingLogins (+) One([client |-> client, user |-> FindUser(username),
                                       password |-> password])
          /\ resp' = NoResp
    /\ UNCHANGED <<backend, users, categories, images, storage, sessions, adminInit,
                   pendingSignups, pendingUploads, pendingDeletes>>

\* Mutant of SessionOf: the admin flag is not copied.
SessionOfWithoutAdminFlag(user) ==
    [userId |-> user.id, username |-> user.username, isAdmin |-> FALSE]

\* req.session.userId = user.id; .username = user.username; .isAdmin = user.isAdmin
SessionOf(user) ==
    [userId |-> user.id, username |-> user.username, isAdmin |-> user.isAdmin]

\* Mutant of LoginDone: a wrong password is answered with an error of its own.
LoginDoneNamesThePassword(r) ==
    /\ BagIn(r, pendingLogins)
    /\ pendingLogins' = pendingLogins (-) One(r)
    /\ IF BcryptCompare(r.password, r.user.password)
       THEN /\ sessions' = [sessions EXCEPT ![r.client] = SessionOf(r.user)]
            /\ resp' = Response("login", 200, r.client, Anonymous, 0,
                                r.user.isAdmin, FALSE)
       ELSE /\ resp' = Failure("login", 401, r.client, Anonymous, 0,
                               "Wrong password")
            /\ UNCHANGED sessions
    /\ UNCHANGED <<backend, users, categories, images, storage, adminInit,
                   pendingSignups, pendingUploads, pendingDeletes>>

\* POST /api/login after await bcrypt.compare.  The session written here is
\* saved under the request's cookie when the response ends, also when another
\* request destroyed the stored session in the meantime.
LoginDone(r) ==
    /\ BagIn(r, pendingLogins)
    /\ pendingLogins' = pendingLogins (-) One(r)
    /\ IF BcryptCompare(r.password, r.user.password)
       THEN /\ sessions' = [sessions EXCEPT ![r.client] = SessionOf(r.user)]
            /\ resp' = Response("login", 200, r.client, Anonymous, 0,
                                r.user.isAdmin, FALSE)
       ELSE /\ resp' = Failure("login", 401, r.client, Anonymous, 0,
                               "Invalid credentials")
            /\ UNCHANGED sessions
    /\ UNCHANGED <<backend, users, categories, images, storage, adminInit,
                   pendingSignups, pendingUploads, pendingDeletes>>

\* Mutant of Logout: the admin flag is dropped and the user stays logged in.
LogoutKeepsUser(client) ==
    /\ sessions' = [sessions EXCEPT ![client].isAdmin = FALSE]
    /\ resp' = Response("logout", 200, client, sessions[client], 0, FALSE, FALSE)
    /\ UNCHANGED <<backend, users, categories, images, storage, adminInit,
                   pendingSignups, pendingLogins, pendingUploads, pendingDeletes>>

\* POST /api/logout: req.session.destroy()
Logout(client) ==
    /\ sessions' = [sessions EXCEPT ![client] = Anonymous]
    /\ resp' = Response("logout", 200, client, sessions[client], 0, FALSE, FALSE)
    /\ UNCHANGED <<backend, users, categories, images, storage, adminInit,
                   pendingSignups, pendingLogins, pendingUploads, pendingDeletes>>

\* GET /api/check-auth
CheckAuth(client) ==
    /\ resp' = IF sessions[client].userId # 0
               THEN Response("check-auth", 200, client, sessions[client], 0,
                             sessions[client].isAdmin, TRUE)
               ELSE Response("check-auth", 200, client, sessions[client], 0,
                             FALSE, FALSE)
    /\ UNCHANGED <<backend, users, categories, images, storage, sessions, adminInit,
                   pendingSignups, pendingLogins, pendingUploads, pendingDeletes>>

\* Mutant of IsAdmin: the condition of isAuthenticated.
IsAdminAnyUser(session) == session.userId # 0

\* function isAdmin(req, res, next): the condition under which next() is called
IsAdmin(session) == session.userId # 0 /\ session.isAdmin

-----------------------------------------------------------------------------
(* Categories *)

\* Mutant of NewCategoryId: the + 1 forgotten.
NewCategoryIdIsLength == Len(categories)

\* id: categories.length + 1
NewCategoryId == Len(categories) + 1

\* Mutant of CreateCategory: the category is pushed before its name is looked at.
CreateCategoryPushesFirst(client, name) ==
    /\ \/ /\ ~IsAdmin(sessions[client])
          /\ resp' = Failure("create-category", 403, client, sessions[client],
                              0, "Admin access required")
          /\ UNCHANGED categories
       \/ /\ IsAdmin(sessions[client])
          /\ Len(categories) < MaxCategories
          /\ categories' = Append(categories, [id |-> NewCategoryId,
                                               name |-> name])
          /\ resp' = IF Falsy(name)
                     THEN Failure("create-category", 400, client, sessions[client],
                                  0, "Category name required")
                     ELSE Response("create-category", 200, client, sessions[client],
                                   NewCategoryId, FALSE, FALSE)
    /\ UNCHANGED <<backend, users, images, storage, sessions, adminInit,
                   pendingSignups, pendingLogins, pendingUploads, pendingDeletes>>

\* POST /api/categories
CreateCategory(client, name) ==
    /\ \/ /\ ~IsAdmin(sessions[client])
          /\ resp' = Failure("create-category", 403, client, sessions[client],
                              0, "Admin access required")
          /\ UNCHANGED categories
       \/ /\ IsAdmin(sessions[client])
          /\ Falsy(name)
          /\ resp' = Failure("create-category", 400, client, sessions[client],
                              0, "Category name required")
          /\ UNCHANGED categories
       \/ /\ IsAdmin(sessions[client])
          /\ ~Falsy(name)
          /\ Len(categories) < MaxCategories
          /\ categories' = Append(categories, [id |-> NewCategoryId,
                                               name |-> name])
          /\ resp' = Response("create-category", 200, client, sessions[client],
                              NewCategoryId, FALSE, FALSE)
    /\ UNCHANGED <<backend, users, images, storage, sessions, adminInit,
                   pendingSignups, pendingLogins, pendingUploads, pendingDeletes>>

\* GET /api/categories: no guard, no session read.
ListCategories ==
    /\ resp' = [Response("list-categories", 200, NoClient, Anonymous, 0,
                          FALSE, FALSE) EXCEPT !.body = categories]
    /\ UNCHANGED <<backend, users, categories, images, storage, sessions, adminInit,
                   pendingSignups, pendingLogins, pendingUploads, pendingDeletes>>

-----------------------------------------------------------------------------
(* Images *)

\* Mutant of AllowedTypes: the local variant takes the list of the other one.
AllowedTypesOfCloudinary ==
    {"image/jpeg", "image/jpg", "image/png", "image/gif", "image/webp"}

\* const allowedTypes = [...]
AllowedTypes ==
    IF backend = "local"
    THEN {"image/jpeg", "image/jpg", "image/png", "image/gif"}
    ELSE {"image/jpeg", "image/jpg", "image/png", "image/gif", "image/webp"}

\* req.files.image: a name and a MIME type; NoFile when the request has none.
NoFile == [name |-> << >>, mimetype |-> ""]
Files == [name : FileNames, mimetype : MimeTypes] \cup {NoFile}

\* local: const fileName = Date.now() + '-' + image.name.replace(/\s/g, '-')
\* cloudinary: fileName: image.name
FileNameOf(name, timestamp) ==
    IF backend = "local" THEN <<timestamp, ReplaceSpaces(name)>> ELSE name

\* Date.now() is the wall clock: an upload reads a millisecond that an upload
\* still known to the server has read, or one that none has.  Only the local
\* variant puts the reading in a file name; milliseconds are numbered in the
\* order the model first meets them.
TimestampsInUse ==
    {images[i].fileName[1] : i \in 1..Len(images)}
    \cup {r.fileName[1] : r \in BagToSet(pendingUploads)}
    \cup {f[1] : f \in storage}
ClockReadings ==
    IF backend = "local"
    THEN TimestampsInUse
         \cup {CHOOSE t \in 1..(Cardinality(TimestampsInUse) + 1) :
                    /\ t \notin TimestampsInUse
                    /\ \A u \in 1..(t - 1) : u \in TimestampsInUse}
    ELSE {0}

\* Cloudinary names a new asset with a public id nothing else carries; ids are
\* numbered, and the model takes the least one that the storage and the
\* server hold nowhere.
PublicIdsInUse ==
    storage
    \cup {images[i].ref : i \in 1..Len(images)}
    \cup {r.image.ref : r \in BagToSet(pendingDeletes)}
FreshPublicId ==
    CHOOSE n \in 1..(Cardinality(PublicIdsInUse) + 1) :
        /\ n \notin PublicIdsInUse
        /\ \A m \in 1..(n - 1) : m \in PublicIdsInUse

\* Mutant of NewImageId: the id of the newest record, the + 1 forgotten.
NewImageIdOfNewest ==
    IF Len(images) = 0 THEN 1 ELSE images[Len(images)].id

\* id: images.length + 1
NewImageId == Len(images) + 1

\* images.findIndex(img => img.id === imageId)
ImageIndex(imageId) == FindIndex(images, "id", imageId)

\* The id parameter of a path, a decimal string: every id an image of the
\* model can have, and one more that none has.
DecimalDigits == <<"0", "1", "2", "3", "4", "5", "6", "7", "8", "9">>
ImageIdInputs == {<<DecimalDigits[n + 1]>> : n \in 1..(MaxImages + 1)}

\* POST /api/upload up to image.mv (local) or await uploadPromise (cloudinary)
Upload(client, file, categoryId, timestamp) ==
    /\ \/ /\ ~IsAdmin(sessions[client])
          /\ resp' = Failure("upload", 403, client, sessions[client], 0,
                             "Admin access required")
          /\ UNCHANGED pendingUploads
       \/ /\ IsAdmin(sessions[client])
          /\ file = NoFile
          /\ resp' = Failure("upload", 400, client, sessions[client], 0,
                             "No image uploaded")
          /\ UNCHANGED pendingUploads
       \/ /\ IsAdmin(sessions[client])
          /\ file # NoFile
          /\ file.mimetype \notin AllowedTypes
          /\ resp' = Failure("upload", 400, client, sessions[client], 0,
                             "Only image files allowed")
          /\ UNCHANGED pendingUploads
       \/ /\ IsAdmin(sessions[client])
          /\ file # NoFile
          /\ file.mimetype \in AllowedTypes
          /\ Len(images) + BagCardinality(pendingUploads) < MaxImages
          /\ Cardinality(storage) + BagCardinality(pendingUploads) < MaxImages
          /\ InFlight < MaxInFlight
          /\ pendingUploads' =
                pendingUploads (+) One([client |-> client,
                                        session |-> sessions[client],
                                        fileName |-> FileNameOf(file.name, timestamp),
                                        originalName |-> file.name,
                                        categoryId |-> categoryId])
          /\ resp' = NoResp
    /\ UNCHANGED <<backend, users, categories, images, storage, sessions, adminInit,
                   pendingSignups, pendingLogins, pendingDeletes>>

\* The storage handle of an upload: the file under uploads/ (local), or the
\* public id Cloudinary generates for the new asset.
NewRef(r) == IF backend = "local" THEN r.fileName ELSE FreshPublicId

\* Mutant of UploadDone: the record is pushed before the outcome of the
\* storage call is looked at.
UploadDoneRecordsFirst(r, ok) ==
    /\ BagIn(r, pendingUploads)
    /\ pendingUploads' = pendingUploads (-) One(r)
    /\ images' = Append(images, [id |-> NewImageId,
                                 fileName |-> r.fileName,
                                 originalName |-> r.originalName,
                                 ref |-> NewRef(r),
                                 categoryId |-> ParseInt(r.categoryId),
                                 uploadedBy |-> r.session.username])
    /\ IF ok
       THEN /\ storage' = storage \cup {NewRef(r)}
            /\ resp' = Response("upload", 200, r.client, r.session, NewImageId,
                                FALSE, FALSE)
       ELSE /\ resp' = Failure("upload", 500, r.client, r.session, 0,
                               IF backend = "local"
                               THEN "Failed to upload image"
                               ELSE "Failed to upload image to Cloudinary")
            /\ UNCHANGED storage
    /\ UNCHANGED <<backend, users, categories, sessions, adminInit,
                   pendingSignups, pendingLogins, pendingDeletes>>

\* POST /api/upload from the callback of image.mv (local) or after await
\* uploadPromise (cloudinary); ok tells whether the backend stored the binary.
UploadDone(r, ok) ==
    /\ BagIn(r, pendingUploads)
    /\ pendingUploads' = pendingUploads (-) One(r)
    /\ IF ok
       THEN /\ storage' = storage \cup {NewRef(r)}
            /\ images' = Append(images, [id |-> NewImageId,
                                         fileName |-> r.fileName,
                                         originalName |-> r.originalName,
                                         ref |-> NewRef(r),
                                         categoryId |-> ParseInt(r.categoryId),
                                         uploadedBy |-> r.session.username])
            /\ resp' = Response("upload", 200, r.client, r.session, NewImageId,
                                FALSE, FALSE)
       ELSE /\ resp' = Failure("upload", 500, r.client, r.session, 0,
                               IF backend = "local"
                               THEN "Failed to upload image"
                               ELSE "Failed to upload image to Cloudinary")
            /\ UNCHANGED <<storage, images>>
    /\ UNCHANGED <<backend, users, categories, sessions, adminInit,
                   pendingSignups, pendingLogins, pendingDeletes>>

\* images.filter(img => img.categoryId === parseInt(categoryId))
FilterByCategory(categoryId) ==
    SelectSeq(images, LAMBDA img : StrictEquals(img.categoryId, ParseInt(categoryId)))

\* GET /api/images: no guard, no session read.  categoryId is the query
\* parameter, << >> when the request has none (undefined and "" are both
\* falsy); arg is parseInt of it when the handler filters, 0 when it does not.
ListImages(categoryId) ==
    /\ resp' = IF Falsy(categoryId)
               THEN [Response("list-images", 200, NoClient, Anonymous, 0,
                              FALSE, FALSE) EXCEPT !.body = images]
               ELSE [Response("list-images", 200, NoClient, Anonymous,
                              ParseInt(categoryId), FALSE, FALSE)
                        EXCEPT !.body = FilterByCategory(categoryId)]
    /\ UNCHANGED <<backend, users, categories, images, storage, sessions, adminInit,
                   pendingSignups, pendingLogins, pendingUploads, pendingDeletes>>

\* GET /api/download/:id.  local: res.download answers 200 with the file, and
\* 404 when the file is gone; cloudinary: res.redirect answers 302.
Download(client, id) ==
    /\ resp' =
         IF ~IsAdmin(sessions[client])
         THEN Failure("download", 403, client, sessions[client], 0,
                      "Admin access required")
         ELSE IF ImageIndex(ParseInt(id)) = 0
         THEN Failure("download", 404, client, sessions[client], ParseInt(id),
                      "Image not found")
         ELSE IF backend = "cloudinary"
         THEN Response("download", 302, client, sessions[client], ParseInt(id),
                       FALSE, FALSE)
         ELSE IF images[ImageIndex(ParseInt(id))].ref \in storage
         THEN Response("download", 200, client, sessions[client], ParseInt(id),
                       FALSE, FALSE)
         ELSE Failure("download", 404, client, sessions[client], ParseInt(id),
                      "Not Found")
    /\ UNCHANGED <<backend, users, categories, images, storage, sessions, adminInit,
                   pendingSignups, pendingLogins, pendingUploads, pendingDeletes>>

\* DELETE /api/images/:id: the whole handler (local, fs.unlinkSync), or the
\* handler up to await cloudinary.uploader.destroy (cloudinary).  ok tells
\* whether the disk lets the file go; unlinkSync also throws when it is gone.
Delete(client, id, ok) ==
    /\ \/ /\ ~IsAdmin(sessions[client])
          /\ resp' = Failure("delete", 403, client, sessions[client], 0,
                             "Admin access required")
          /\ UNCHANGED <<images, storage, pendingDeletes>>
       \/ /\ IsAdmin(sessions[client])
          /\ ImageIndex(ParseInt(id)) = 0
          /\ resp' = Failure("delete", 404, client, sessions[client], ParseInt(id),
                             "Image not found")
          /\ UNCHANGED <<images, storage, pendingDeletes>>
       \/ /\ IsAdmin(sessions[client])
          /\ ImageIndex(ParseInt(id)) # 0
          /\ backend = "local"
          /\ LET imageIndex == ImageIndex(ParseInt(id))
                 image == images[imageIndex]
             IN  IF ok /\ image.ref \in storage
                 THEN /\ storage' = storage \ {image.ref}
                      /\ images' = Splice1(images, imageIndex)
                      /\ resp' = Response("delete", 200, client, sessions[client],
                                          ParseInt(id), FALSE, FALSE)
                 ELSE /\ resp' = Failure("delete", 500, client, sessions[client],
                                          ParseInt(id), "Server error")
                      /\ UNCHANGED <<images, storage>>
          /\ UNCHANGED pendingDeletes
       \/ /\ IsAdmin(sessions[client])
          /\ ImageIndex(ParseInt(id)) # 0
          /\ backend = "cloudinary"
          /\ ok
          /\ InFlight < MaxInFlight
          /\ pendingDeletes' =
                pendingDeletes (+) One([client |-> client,
                                        session |-> sessions[client],
                                        imageId |-> ParseInt(id),
                                        imageIndex |-> ImageIndex(ParseInt(id)),
                                        image |-> images[ImageIndex(ParseInt(id))]])
          /\ resp' = NoResp
          /\ UNCHANGED <<images, storage>>
    /\ UNCHANGED <<backend, users, categories, sessions, adminInit,
                   pendingSignups, pendingLogins, pendingUploads>>

\* DELETE /api/images/:id after await cloudinary.uploader.destroy; ok tells
\* whether destroy resolved.  The index found before the await is used as is.
DeleteDone(r, ok) ==
    /\ BagIn(r, pendingDeletes)
    /\ pendingDeletes' = pendingDeletes (-) One(r)
    /\ IF ok
       THEN /\ storage' = storage \ {r.image.ref}
            /\ images' = Splice1(images, r.imageIndex)
            /\ resp' = Response("delete", 200, r.client, r.session, r.imageId,
                                FALSE, FALSE)
       ELSE /\ resp' = Failure("delete", 500, r.client, r.session, r.imageId,
                               "Failed to delete image")
            /\ UNCHANGED <<storage, images>>
    /\ UNCHANGED <<backend, users, categories, sessions, adminInit,
                   pendingSignups, pendingLogins, pendingUploads>>

-----------------------------------------------------------------------------
(* The server *)

\* initializeAdmin and the sign-ups, with the request bodies drawn from the
\* given sets.
SignupStep(usernames, passwords, salts) ==
    \/ \E salt \in salts : InitializeAdminDone(salt)
    \/ \E u \in usernames, p \in passwords : Signup(u, p)
    \/ \E r \in BagToSet(pendingSignups), salt \in salts : SignupDone(r, salt)

\* The requests on the sessions.
SessionStep(clients, usernames, passwords) ==
    \/ \E c \in clients, u \in usernames, p \in passwords : Login(c, u, p)
    \/ \E r \in BagToSet(pendingLogins) : LoginDone(r)
    \/ \E c \in clients : Logout(c)
    \/ \E c \in clients : CheckAuth(c)

\* The requests on the category registry.
CategoryStep(clients) ==
    \/ \E c \in clients, n \in CategoryNames : CreateCategory(c, n)
    \/ ListCategories

\* The upload requests.
UploadStep(clients, files, categoryIds) ==
    \/ \E c \in clients, f \in files, k \in categoryIds, t \in ClockReadings :
            Upload(c, f, k, t)
    \/ \E r \in BagToSet(pendingUploads), ok \in BOOLEAN : UploadDone(r, ok)

\* The requests on the category and image registries.
GalleryStep(clients, files, categoryIds, imageIds, queries) ==
    \/ CategoryStep(clients)
    \/ \E k \in queries : ListImages(k)
    \/ UploadStep(clients, files, categoryIds)
    \/ \E c \in clients, id \in imageIds : Download(c, id)
    \/ \E c \in clients, id \in imageIds, ok \in BOOLEAN : Delete(c, id, ok)
    \/ \E r \in BagToSet(pendingDeletes), ok \in BOOLEAN : DeleteDone(r, ok)

Next ==
    \/ SignupStep(Usernames, Passwords, Salts)
    \/ SessionStep(Clients, Usernames, Passwords)
    \/ GalleryStep(Clients, Files, CategoryIdInputs, ImageIdInputs, CategoryQueries)

Spec == Init /\ [][Next]_vars

\* The credential store alone: initializeAdmin and the sign-ups.
SpecSignup == Init /\ [][SignupStep(Usernames, Passwords, Salts)]_vars

\* The credential store and the sessions.  No request on the registries
\* writes users, sessions, adminInit, pendingSignups or pendingLogins.
AuthSignupPasswords == {<< >>, <<"B", "x">>}
AuthClients == {"c1"}
SpecAuth ==
    Init /\ [][\/ SignupStep(Usernames, AuthSignupPasswords, {"s1"})
               \/ SessionStep(AuthClients, Usernames, Passwords)]_vars

\* The registries, for a server whose start-up is over and whose credential
\* store holds the default admin and one user who signed up after it.  The
\* logins and logouts put the client in each session state: anonymous, user,
\* admin.
GalleryInit ==
    /\ backend \in {"local", "cloudinary"}
    /\ users = <<[id |-> 1, username |-> AdminUsername,
                  password |-> BcryptHash(AdminPassword, "s1"), isAdmin |-> TRUE],
                 [id |-> 2, username |-> <<"b">>,
                  password |-> BcryptHash(AdminPassword, "s2"), isAdmin |-> FALSE]>>
    /\ categories = << >>
    /\ images = << >>
    /\ storage = {}
    /\ sessions = [c \in Clients |-> Anonymous]
    /\ adminInit = "done"
    /\ pendingSignups = EmptyBag
    /\ pendingLogins = EmptyBag
    /\ pendingUploads = EmptyBag
    /\ pendingDeletes = EmptyBag
    /\ resp = NoResp

GalleryClients == {"c1"}
GalleryLogins == {AdminPassword}
GalleryFiles ==
    {NoFile} \cup [name : {<<"p", " ", "q">>}, mimetype : MimeTypes]
GalleryCategoryIds == {<<"1">>}
GalleryQueries == {<< >>, <<"1">>}
SpecGallery ==
    GalleryInit
    /\ [][\/ SessionStep(GalleryClients, Usernames, GalleryLogins)
          \/ GalleryStep(GalleryClients, GalleryFiles, GalleryCategoryIds,
                         ImageIdInputs, GalleryQueries)]_vars

\* The registries under the requests of the admin alone, with uploads into
\* two categories and uploads whose categoryId is no number, and list
\* requests of every kind.
ListUsernames == {AdminUsername}
ListFiles == {[name |-> <<"p", " ", "q">>, mimetype |-> "image/jpeg"]}
ListImageIds == {<<"1">>}
SpecList ==
    GalleryInit
    /\ [][\/ SessionStep(GalleryClients, ListUsernames, GalleryLogins)
          \/ GalleryStep(GalleryClients, ListFiles, CategoryIdInputs,
                         ListImageIds, CategoryQueries)]_vars

\* The category registry alone, with the sessions of two clients.
SpecCategories ==
    GalleryInit
    /\ [][\/ SessionStep(Clients, Usernames, GalleryLogins)
          \/ CategoryStep(Clients)]_vars

\* The whole server from its start-up, every route with inputs that reach
\* its refusals: sign-ups with no name and with one name, logins with the
\* password of the admin, uploads with a file and without one.
FrameUsernames == {<< >>, <<"b">>}
FrameSignupPasswords == {<<"B", "x">>}
FrameFiles == {NoFile, [name |-> <<"p", " ", "q">>, mimetype |-> "image/jpeg"]}
FrameQueries == {<< >>}
SpecFrame ==
    Init
    /\ [][\/ SignupStep(FrameUsernames, FrameSignupPasswords, {"s1"})
          \/ SessionStep(GalleryClients, Usernames, GalleryLogins)
          \/ GalleryStep(GalleryClients, FrameFiles, GalleryCategoryIds,
                         ListImageIds, FrameQueries)]_vars

\* The image registry under uploads alone: no request deletes.
SpecUploads ==
    GalleryInit
    /\ [][\/ SessionStep(GalleryClients, ListUsernames, GalleryLogins)
          \/ UploadStep(GalleryClients, GalleryFiles, CategoryIdInputs)]_vars

-----------------------------------------------------------------------------
(* C1: the admin flag of a sign-up *)

\* User records stored by sign-ups: all of users but the one initializeAdmin
\* appends.
SuccessfulSignups == Len(users) - (IF adminInit = "done" THEN 1 ELSE 0)

\* C1, as claimed: the first sign-up that succeeds answers isAdmin = true and
\* every later one answers isAdmin = false.
C1_FirstSignupIsAdmin ==
    (resp.op = "signup" /\ resp.status = 200)
        => (resp.isAdmin <=> SuccessfulSignups = 1)

\* C1, amended: a sign-up that succeeds answers isAdmin = true exactly when
\* the credential store held no user record, the default admin's included,
\* when the sign-up stored its own; the record it stores carries the flag it
\* answers.
C1_SignupIsAdminIffStoreWasEmpty ==
    (resp.op = "signup" /\ resp.status = 200)
        => /\ resp.isAdmin <=> Len(users) = 1
           /\ users[Len(users)].isAdmin = resp.isAdmin

\* Two sign-ups have succeeded after the default admin was stored, and the
\* second was answered isAdmin = false.
C1_Witness ==
    /\ resp.op = "signup" /\ resp.status = 200 /\ ~resp.isAdmin
    /\ adminInit = "done" /\ SuccessfulSignups = 2

-----------------------------------------------------------------------------
(* C7: sign-up with a username that is taken *)

-----------------------------------------------------------------------------
(* C8: login *)

\* C8, as claimed: a login succeeds if and only if the credential store holds
\* a user with the given username whose stored hash the given password
\* matches.  Stated of the handler when its bcrypt.compare has resolved.
C8_LoginIffSomeUserMatches ==
    [][\A r \in BagToSet(pendingLogins) :
          LoginDone(r)
              => (resp'.status = 200
                    <=> \E i \in 1..Len(users) :
                           /\ users[i].username = r.user.username
                           /\ BcryptCompare(r.password, users[i].password))]_vars

-----------------------------------------------------------------------------
(* C9: logout *)

\* C9: a logout leaves its session anonymous; an anonymous session stays
\* anonymous in every step but a login on it that succeeds; and check-auth
\* answers authenticated = false for an anonymous session (and true for any
\* other).
C9_AnonymousFromLogoutToLogin ==
    [][\A c \in Clients :
          /\ (resp'.op = "logout" /\ resp'.client = c)
                => sessions'[c] = Anonymous
          /\ (sessions[c] = Anonymous /\ sessions'[c] # Anonymous)
                => (resp'.op = "login" /\ resp'.status = 200 /\ resp'.client = c)
          /\ (resp'.op = "check-auth" /\ resp'.client = c)
                => (resp'.authenticated <=> sessions[c] # Anonymous)]_vars

\* A session that was logged in has just been logged out.
C9_Witness ==
    /\ resp.op = "logout"
    /\ resp.session # Anonymous
    /\ sessions[resp.client] = Anonymous

-----------------------------------------------------------------------------
(* C2: the admin guard *)

AdminRoutes == {"create-category", "upload", "download", "delete"}

\* C2: a caller whose session is anonymous or is not an admin's is answered
\* 401 or 403 by category creation, upload, download and delete, and no upload
\* or delete of such a caller is ever left waiting for the storage backend.
C2_NonAdminIsRefused ==
    /\ (resp.op \in AdminRoutes /\ ~(resp.session.userId # 0 /\ resp.session.isAdmin))
          => resp.status \in {401, 403}
    /\ \A r \in BagToSet(pendingUploads) : r.session.userId # 0 /\ r.session.isAdmin
    /\ \A r \in BagToSet(pendingDeletes) : r.session.userId # 0 /\ r.session.isAdmin

\* A logged-in user who is no admin has been refused while the registry
\* holds an image.
C2_Witness ==
    /\ resp.op \in AdminRoutes
    /\ resp.status = 403
    /\ resp.session.userId # 0 /\ ~resp.session.isAdmin
    /\ Len(images) > 0

-----------------------------------------------------------------------------
(* C3: what a delete removes *)

\* The image records whose id is not imageId, in registry order.
OtherImages(registry, imageId) ==
    SelectSeq(registry, LAMBDA img : img.id # imageId)

\* C3, as claimed: a delete of an id that no record has is answered 404 and
\* leaves the registry as it is; a delete that is answered 200 removes at most
\* one record, removes the binary of a record of that id, and leaves every
\* record of another id in place and in order.
C3_DeleteRemovesThatRecordOnly ==
    [][/\ \A c \in Clients, id \in ImageIdInputs, ok \in BOOLEAN :
             ( /\ Delete(c, id, ok)
               /\ sessions[c].userId # 0 /\ sessions[c].isAdmin
               /\ \A i \in 1..Len(images) : images[i].id # ParseInt(id) )
                 => (resp'.status = 404 /\ images' = images /\ storage' = storage)
       /\ (resp'.op = "delete" /\ resp'.status = 404)
             => (images' = images /\ storage' = storage)
       /\ (resp'.op = "delete" /\ resp'.status = 200)
             => /\ OtherImages(images', resp'.arg) = OtherImages(images, resp'.arg)
                /\ Len(images') >= Len(images) - 1
                /\ storage' \subseteq storage
                /\ Cardinality(storage \ storage') <= 1]_vars

-----------------------------------------------------------------------------
(* C4: image ids *)

\* C4, as claimed: no two records of the image registry have the same id.
C4_ImageIdsAreUnique ==
    \A i, j \in 1..Len(images) : i # j => images[i].id # images[j].id

-----------------------------------------------------------------------------
(* C5: a delete is all or nothing *)

\* After the step, the registry holds the record img / the storage holds the
\* binary of img.
RecordKept(img) == \E i \in 1..Len(images') : images'[i] = img
BinaryKept(img) == img.ref \in storage'

\* C5, as claimed: a delete whose storage removal fails is answered 500 and
\* changes neither the registry nor the storage, and after any delete the
\* record and the binary of the image it found are both gone or both there.
C5_RecordAndBinaryGoTogether ==
    [][/\ \A c \in Clients, id \in ImageIdInputs, ok \in BOOLEAN :
             (Delete(c, id, ok) /\ resp'.status \in {200, 500})
                 => (RecordKept(images[ImageIndex(ParseInt(id))])
                       <=> BinaryKept(images[ImageIndex(ParseInt(id))]))
       /\ \A r \in BagToSet(pendingDeletes), ok \in BOOLEAN :
             DeleteDone(r, ok)
                 => /\ ~ok => (resp'.status = 500 /\ images' = images
                                /\ storage' = storage)
                    /\ RecordKept(r.image) <=> BinaryKept(r.image)]_vars

-----------------------------------------------------------------------------
(* C6: registry and storage agree *)

\* C6, as claimed: while no upload and no delete is in flight, the binaries
\* the storage holds are exactly those the image records refer to.
C6_StorageMatchesRegistry ==
    (pendingUploads = EmptyBag /\ pendingDeletes = EmptyBag)
        => storage = {images[i].ref : i \in 1..Len(images)}

-----------------------------------------------------------------------------
(* C10: the MIME allow-list *)

\* jpeg (image/jpg is its usual alias), png and gif, and webp where the
\* variant supports it.
C10_AllowList ==
    {"image/jpeg", "image/jpg", "image/png", "image/gif"}
    \cup (IF backend = "cloudinary" THEN {"image/webp"} ELSE {})

\* C10: an upload by an admin of a file whose MIME type is off the allow-list
\* is answered 400, stores no image record and no binary, and leaves no
\* upload waiting for the storage backend.
C10_OtherMimeTypesAreRejected ==
    [][\A c \in GalleryClients, f \in GalleryFiles, k \in GalleryCategoryIds,
          t \in ClockReadings :
          ( /\ Upload(c, f, k, t)
            /\ sessions[c].userId # 0 /\ sessions[c].isAdmin
            /\ f # NoFile
            /\ f.mimetype \notin C10_AllowList )
              => /\ resp'.op = "upload" /\ resp'.status = 400
                 /\ images' = images
                 /\ storage' = storage
                 /\ pendingUploads' = pendingUploads]_vars

\* An upload has been refused for its MIME type while the registry holds an
\* image.
C10_Witness ==
    /\ resp.op = "upload" /\ resp.status = 400
    /\ resp.error = "Only image files allowed"
    /\ Len(images) > 0

-----------------------------------------------------------------------------
(* C11: an upload is all or nothing *)

\* C11: when the storage backend stores the binary of an upload, the upload
\* is answered 200 and the registry grows by exactly one record, appended
\* after the others, of the file of the request and of a binary the storage
\* holds; when the storage backend fails, the upload is answered 500 and the
\* registry and the storage are as before.
C11_UploadIsAllOrNothing ==
    [][\A r \in BagToSet(pendingUploads), ok \in BOOLEAN :
          UploadDone(r, ok)
              => IF ok
                 THEN /\ resp'.op = "upload" /\ resp'.status = 200
                      /\ Len(images') = Len(images) + 1
                      /\ SubSeq(images', 1, Len(images)) = images
                      /\ images'[Len(images')].originalName = r.originalName
                      /\ images'[Len(images')].ref \in storage'
                 ELSE /\ resp'.op = "upload" /\ resp'.status = 500
                      /\ images' = images
                      /\ storage' = storage]_vars

\* The storage backend has failed an upload while the registry holds the
\* record of an earlier upload that it stored.
C11_Witness ==
    /\ resp.op = "upload" /\ resp.status = 500
    /\ Len(images) > 0

-----------------------------------------------------------------------------
(* C12: listing images *)

\* The image records whose categoryId is a number and is the number the
\* query names, in registry order.
C12_RecordsOfCategory(k) ==
    SelectSeq(images, LAMBDA img : img.categoryId \in Nat
                                     /\ img.categoryId = ParseInt(k))

\* C12: a list request with a categoryId is answered 200 with exactly the
\* records of that category, in registry order (which is creation order),
\* the empty sequence when there is none; a list request without one is
\* answered 200 with the whole registry in its order.  It changes nothing.
C12_ListReturnsTheCategory ==
    [][\A k \in CategoryQueries :
          ListImages(k)
              => /\ resp'.op = "list-images" /\ resp'.status = 200
                 /\ resp'.body = IF k = << >> THEN images
                                 ELSE C12_RecordsOfCategory(k)
                 /\ images' = images]_vars

\* A list request with a categoryId has been answered with some of the
\* records and not all of them.
C12_Witness ==
    /\ resp.op = "list-images" /\ resp.status = 200
    /\ resp.arg # 0
    /\ Len(resp.body) > 0
    /\ Len(resp.body) < Len(images)

-----------------------------------------------------------------------------
(* C13: what a session caches *)

\* C13: the userId, username and isAdmin flag of every authenticated session
\* are those of one user record of the credential store, and no record of
\* the store with the session's userId has another admin flag than the
\* session.
C13_SessionMatchesItsUser ==
    \A c \in Clients :
        sessions[c].userId # 0
            => /\ \E i \in 1..Len(users) :
                     /\ users[i].id = sessions[c].userId
                     /\ users[i].username = sessions[c].username
                     /\ users[i].isAdmin = sessions[c].isAdmin
               /\ \A i \in 1..Len(users) :
                     users[i].id = sessions[c].userId
                         => users[i].isAdmin = sessions[c].isAdmin

\* An admin has just logged in, and holds an admin's session, while the
\* credential store also holds a user who is no admin.
C13_Witness ==
    /\ resp.op = "login" /\ resp.status = 200 /\ resp.isAdmin
    /\ sessions[resp.client].isAdmin
    /\ \E i \in 1..Len(users) : ~users[i].isAdmin

-----------------------------------------------------------------------------
(* C14: a refused login does not tell why *)

\* The one response of a refused login of client c.
C14_Refusal(c) ==
    [op |-> "login", status |-> 401, client |-> c, session |-> Anonymous,
     arg |-> 0, error |-> "Invalid credentials", isAdmin |-> FALSE,
     authenticated |-> FALSE, body |-> << >>]

\* C14: a login with a username that no user record has, and a login with
\* the username of a user record whose hash bcrypt.compare finds the
\* password not to match, are answered with the same response, 401 and the
\* same error, and both leave every session as it was.
C14_RefusalsAreAlike ==
    [][/\ \A c \in Clients, u \in Usernames, p \in Passwords :
             ( /\ \A i \in 1..Len(users) : users[i].username # u
               /\ Login(c, u, p) )
                 => (resp' = C14_Refusal(c) /\ sessions' = sessions)
       /\ \A r \in BagToSet(pendingLogins) :
             ( /\ ~BcryptCompare(r.password, r.user.password)
               /\ LoginDone(r) )
                 => (resp' = C14_Refusal(r.client) /\ sessions' = sessions)]_vars

\* A login has been refused while the credential store holds the default
\* admin and a user who signed up, and no login is waiting for bcrypt.
C14_Witness ==
    /\ resp = C14_Refusal("c1")
    /\ Len(users) >= 2
    /\ pendingLogins = EmptyBag

-----------------------------------------------------------------------------
(* C15: the ids of overlapping uploads *)

\* C15, as claimed: with no delete involved, the id of an upload is open to
\* a race with an upload it overlaps: an upload that is stored right after
\* an upload that was stored while it waited for the storage backend is
\* assigned the id of that upload.
C15_OverlappingUploadsShareAnId ==
    [][\A r \in BagToSet(pendingUploads) :
          ( /\ resp.op = "upload" /\ resp.status = 200
            /\ UploadDone(r, TRUE) )
              => resp'.arg = resp.arg]_vars

\* C15, amended: with no delete involved, an upload that is stored is
\* assigned the size of the registry at that moment plus 1, an id that no
\* record has, whatever uploads it overlapped; so no two records share an id.
C15_OverlappingUploadsGetDistinctIds ==
    [][\A r \in BagToSet(pendingUploads) :
          UploadDone(r, TRUE)
              => /\ resp'.arg = Len(images) + 1
                 /\ images'[Len(images')].id = resp'.arg
                 /\ \A i \in 1..Len(images) : images[i].id # resp'.arg
                 /\ \A i, j \in 1..Len(images') :
                        i # j => images'[i].id # images'[j].id]_vars

\* An upload has just been stored and assigned its id while another upload,
\* which arrived before that, still waits for the storage backend.
C15_Witness ==
    /\ resp.op = "upload" /\ resp.status = 200
    /\ Len(images) > 0 /\ images[Len(images)].id = resp.arg
    /\ pendingUploads # EmptyBag

-----------------------------------------------------------------------------
(* C16: usernames and user ids *)

\* C16, as claimed: no two user records of the credential store have the
\* same username, and no two have the same id.
C16_UsersAreUnique ==
    \A i, j \in 1..Len(users) :
        i # j => /\ users[i].username # users[j].username
                 /\ users[i].id # users[j].id

-----------------------------------------------------------------------------
(* C17: category ids *)

\* C17: a category creation by an admin with a name that is not empty is
\* answered 200 and appends one category, of that name, whose id is the
\* size of the registry before the call plus 1; with an empty name it is
\* answered 400 and leaves the registry as it is; and after any step the ids
\* of the categories are 1..n in registry order.
C17_CategoryIdsCountUp ==
    [][/\ \A c \in Clients, n \in CategoryNames :
             ( /\ CreateCategory(c, n)
               /\ sessions[c].userId # 0 /\ sessions[c].isAdmin )
                 => IF n = << >>
                    THEN resp'.status = 400 /\ categories' = categories
                    ELSE /\ resp'.status = 200
                         /\ Len(categories') = Len(categories) + 1
                         /\ SubSeq(categories', 1, Len(categories)) = categories
                         /\ categories'[Len(categories')].name = n
                         /\ categories'[Len(categories')].id = Len(categories) + 1
       /\ \A i \in 1..Len(categories') : categories'[i].id = i]_vars

\* A second category has just been created.
C17_Witness ==
    /\ resp.op = "create-category" /\ resp.status = 200
    /\ Len(categories) >= 2

-----------------------------------------------------------------------------
(* C18: a refused login and the session *)

\* C18: a login that is refused, for its username or for its password,
\* leaves every session as it was, the requesting one included, anonymous or
\* authenticated; and a session that was anonymous is authenticated after a
\* step only when the step is a login of its client that succeeded, and then
\* as a user of the credential store.
C18_RefusedLoginKeepsSession ==
    [][/\ (resp'.op = "login" /\ resp'.status # 200) => sessions' = sessions
       /\ \A c \in Clients, u \in Usernames, p \in Passwords :
             sessions' # sessions => ~Login(c, u, p)
       /\ \A c \in Clients :
             (sessions[c].userId = 0 /\ sessions'[c].userId # 0)
                 => /\ resp'.op = "login" /\ resp'.status = 200
                    /\ resp'.client = c
                    /\ \E i \in 1..Len(users) :
                           sessions'[c].userId = users[i].id]_vars

\* A login has been refused on a session that is authenticated.
C18_Witness ==
    /\ resp.op = "login" /\ resp.status = 401
    /\ sessions[resp.client].userId # 0

-----------------------------------------------------------------------------
(* C19: refusals and reads change nothing *)

C19_Refusals == {400, 401, 403, 404}
C19_Reads == {"list-categories", "list-images", "check-auth", "download"}

\* C19: a request that is answered 400, 401, 403 or 404, and a list of the
\* categories, a list of the images, a check-auth and a download whatever
\* their answer, leave the user, category and image registries and the
\* storage as they were, and leave no sign-up, upload or delete waiting that
\* was not waiting before.
C19_RefusalsAndReadsChangeNothing ==
    [][(resp'.status \in C19_Refusals \/ resp'.op \in C19_Reads)
          => /\ users' = users
             /\ categories' = categories
             /\ images' = images
             /\ storage' = storage
             /\ pendingSignups' = pendingSignups
             /\ pendingUploads' = pendingUploads
             /\ pendingDeletes' = pendingDeletes]_vars

\* A delete of an id that no record has was answered 404 while the three
\* registries hold records.
C19_Witness ==
    /\ resp.op = "delete" /\ resp.status = 404
    /\ Len(images) > 0 /\ Len(categories) > 0 /\ Len(users) > 1

====
